---- MODULE Spec2Model ----
(***************************************************************************)
(* Model of syfertext/token.py: the Token object (construction, custom     *)
(* attributes through the shared Underscore object, text accessors, the    *)
(* vector lookup, SMPC encryption of the vector, pointer creation).        *)
(*                                                                         *)
(* Python's None is modelled as the empty tuple << >> and a present        *)
(* optional value x as the one-element tuple <<x>>.  Strings are tuples of *)
(* characters.                                                             *)
(***************************************************************************)
EXTENDS Integers, Sequences, FiniteSets, TLC

\* ------------------------------------------------------------------ bounds
NumTokens == 2
MaxWorkers == 2

\* ------------------------------------------------------- fixed input sets
None == << >>
Some(x) == <<x>>

Workers == {"A", "B"}
\* the (location, owner, ptr_id, garbage_collect_data) a caller of
\* create_pointer passes: the defaults of the signature, every argument
\* given, and a location alone with garbage collection switched off
PointerArgs == { <<None, None, None, TRUE>>,
                 <<Some("B"), Some("B"), Some(5), FALSE>>,
                 <<Some("B"), None, None, FALSE>> }
\* the (id_at_location, register) a caller of create_pointer passes
IdArgs == { <<None, FALSE>>, <<None, TRUE>>, <<Some(0), TRUE>>,
            <<Some(7), FALSE>> }
Names == {"tag", "start_pos"}
\* attribute values are opaque to the token; two different ones
Values == {1, 2}
TokIds == 1..NumTokens
\* Underscore objects: 0 is the one of the TokenMeta, the others are spare
UsIds == 0..NumTokens

\* doc.vocab.store: hash key -> string (external StringStore; fixed content)
Store == (101 :> <<"h", "i">>) @@ (102 :> <<" ">>)

\* the vector the embedding table holds for a text when it has one
VecOf(text) == IF text = <<"h", "i">> THEN <<1, 2>> ELSE <<3, 4>>

\* token metadata handed over by the tokenizer (TokenMeta objects)
MetaChoices ==
  { [orth |-> 101, start_pos |-> 0, end_pos |-> Some(1), is_space |-> FALSE, space_after |-> TRUE],
    [orth |-> 102, start_pos |-> 2, end_pos |-> None,    is_space |-> TRUE,  space_after |-> FALSE] }

WorkerSeqs == UNION { [1..n -> Workers] : n \in 0..MaxWorkers }

VARIABLES meta, heap, tokens, vectors, registry, session, last

vars == <<meta, heap, tokens, vectors, registry, session, last>>

\* ---------------------------------------------------------------- helpers
Range(s) == { s[i] : i \in DOMAIN s }

NoToken ==
  [built |-> FALSE, id |-> 0, owner |-> "A", orth |-> 0,
   start_pos |-> 0, stop_pos |-> None, is_space |-> FALSE,
   space_after |-> FALSE, us |-> 0, has_vector |-> FALSE]

NoPointer ==
  [location |-> None, id_at_location |-> None, owner |-> None,
   id |-> None, garbage_collect_data |-> FALSE]

NoError == [kind |-> "", at |-> ""]

NoCall ==
  [op |-> "init", tok |-> 0, name |-> "", value |-> 0, str |-> << >>, num |-> 0,
   vec |-> None, err |-> NoError, ptr |-> NoPointer, args |-> NoPointer,
   register |-> FALSE]

Idle ==
  [state |-> "IDLE", tok |-> 0, workers |-> << >>,
   lookedUp |-> FALSE, encoded |-> FALSE,
   delivered |-> << >>, sent |-> 0, from |-> "", err |-> NoError]

Terminal == {"IDLE", "SHARED", "FAILED"}
Busy == session.state \notin Terminal

\* exceptions, by the name of the Python exception class
AssertionError == "AssertionError"
VectorNotFoundError == "VectorNotFoundError"
NetworkError == "NetworkError"

\* --------------------------------------------- external collaborators
\* Vectors.has_vector(text): whether the table holds a vector for the text
HasVector(tbl, text) == text \in tbl

\* Vectors.__getitem__(text): the table entry, or the lookup failure
Lookup(tbl, text) ==
  IF text \in tbl
    THEN [vec |-> Some(VecOf(text)), err |-> NoError]
    ELSE [vec |-> None, err |-> [kind |-> VectorNotFoundError, at |-> ""]]

\* ------------------------------------------------------ Token, pure parts
\* Token.text: str(self.doc.vocab.store[self.orth]); str() of a Python
\* string is that string
text(tok) == Store[tok.orth]

\* Token.__len__
len(tok) == Len(text(tok))

\* variant: the trailing space decided by is_space
text_with_ws_is_space(tok) ==
  IF tok.is_space THEN text(tok) \o <<" ">> ELSE text(tok)

\* Token.text_with_ws
text_with_ws(tok) ==
  IF tok.space_after THEN text(tok) \o <<" ">> ELSE text(tok)

\* variant: the lookup gated by the cached has_vector
vector_gated(tok, tbl) ==
  IF tok.has_vector
    THEN Lookup(tbl, text(tok))
    ELSE [vec |-> None, err |-> [kind |-> VectorNotFoundError, at |-> ""]]

\* Token.vector: a live table lookup of the token's text
vector(tok, tbl) == Lookup(tbl, text(tok))

\* stop_pos of Token.__init__: one past end_pos, None when end_pos is None
stop_pos(end_pos) == IF end_pos # None THEN Some(end_pos[1] + 1) ELSE None

\* variant: every token gets an Underscore object of its own
UnderscoreFresh(token_meta, t) == t

\* self._ = token_meta._ : the token refers to the metadata's Underscore
Underscore(token_meta, t) == token_meta.us

\* Token.__init__
Token(t, token_meta, tbl) ==
  LET base == [NoToken EXCEPT !.built = TRUE, !.id = 10 + t,
                              !.owner = IF t = 1 THEN "A" ELSE "B",
                              !.orth = token_meta.orth,
                              !.start_pos = token_meta.start_pos,
                              !.stop_pos = stop_pos(token_meta.end_pos),
                              !.is_space = token_meta.is_space,
                              !.space_after = token_meta.space_after,
                              !.us = Underscore(token_meta, t)]
  IN  [base EXCEPT !.has_vector = HasVector(tbl, text(base))]

\* variant: an attribute already present keeps its value
setattr_default(bag, name, value) ==
  [n \in (DOMAIN bag) \cup {name} |->
     IF n \in DOMAIN bag THEN bag[n] ELSE value]

\* setattr(obj, name, value) on an Underscore object
setattr(bag, name, value) ==
  [n \in (DOMAIN bag) \cup {name} |-> IF n = name THEN value ELSE bag[n]]

\* variant: setattr on the token itself
TokensAfterSetAttributeOnSelf(toks, t, name, value) ==
  IF name = "start_pos" THEN [toks EXCEPT ![t].start_pos = value] ELSE toks

\* the object Token.set_attribute writes to: self._ , never the token
TokensAfterSetAttribute(toks, t, name, value) == toks

\* variant: the assertion off by one
EnoughWorkersOffByOne(workers) == Len(workers) > 0

\* the assertion of get_encrypted_vector
EnoughWorkers(workers) == Len(workers) > 1

\* variant: `id_at_location or token.id`, which also replaces the id 0
DefaultIdAtLocationFalsy(id_at_location, tok) ==
  IF id_at_location \in {None, Some(0)} THEN Some(tok.id) ELSE id_at_location

\* create_pointer: defaults of id_at_location and owner
DefaultIdAtLocation(id_at_location, tok) ==
  IF id_at_location = None THEN Some(tok.id) ELSE id_at_location

DefaultOwner(owner, tok) ==
  IF owner = None THEN Some(tok.owner) ELSE owner

\* the TokenPointer built by create_pointer
TokenPointer(location, id_at_location, owner, id, garbage_collect_data) ==
  [location |-> location, id_at_location |-> id_at_location, owner |-> owner,
   id |-> id, garbage_collect_data |-> garbage_collect_data]

\* create_pointer never reads its register parameter
RegistryAfterCreatePointer(reg, register, ptr) == reg

\* ------------------------------------------------------------------ Init
Init ==
  /\ meta \in MetaChoices
  /\ heap = [u \in UsIds |-> << >>]
  /\ tokens = [t \in TokIds |-> NoToken]
  /\ vectors \in SUBSET {Store[meta.orth]}
  /\ registry = [w \in Workers |-> {}]
  /\ session = Idle
  /\ last = NoCall

\* the TokenMeta object: its fields and the Underscore object it refers to
TokenMeta == [orth |-> meta.orth, start_pos |-> meta.start_pos,
              end_pos |-> meta.end_pos, is_space |-> meta.is_space,
              space_after |-> meta.space_after, us |-> 0]

\* --------------------------------------------------------------- actions
\* Token(doc, token_meta, id, owner): the next token of the document
Construct(t) ==
  /\ ~Busy
  /\ ~tokens[t].built
  /\ IF t = 1 THEN TRUE ELSE tokens[t - 1].built
  /\ tokens' = [tokens EXCEPT ![t] = Token(t, TokenMeta, vectors)]
  /\ last' = [NoCall EXCEPT !.op = "construct", !.tok = t]
  /\ session' = Idle
  /\ UNCHANGED <<meta, heap, vectors, registry>>

\* token.set_attribute(name, value)
SetAttribute(t, name, value) ==
  /\ ~Busy
  /\ tokens[t].built
  /\ heap' = [heap EXCEPT ![tokens[t].us] = setattr(@, name, value)]
  /\ tokens' = TokensAfterSetAttribute(tokens, t, name, value)
  /\ last' = [NoCall EXCEPT !.op = "set_attribute", !.tok = t,
                            !.name = name, !.value = value]
  /\ session' = Idle
  /\ UNCHANGED <<meta, vectors, registry>>

\* token.text
GetText(t) ==
  /\ ~Busy
  /\ tokens[t].built
  /\ last' = [NoCall EXCEPT !.op = "text", !.tok = t, !.str = text(tokens[t])]
  /\ session' = Idle
  /\ UNCHANGED <<meta, heap, tokens, vectors, registry>>

\* len(token)
GetLen(t) ==
  /\ ~Busy
  /\ tokens[t].built
  /\ last' = [NoCall EXCEPT !.op = "len", !.tok = t, !.num = len(tokens[t])]
  /\ session' = Idle
  /\ UNCHANGED <<meta, heap, tokens, vectors, registry>>

\* token.text_with_ws
GetTextWithWs(t) ==
  /\ ~Busy
  /\ tokens[t].built
  /\ last' = [NoCall EXCEPT !.op = "text_with_ws", !.tok = t,
                            !.str = text_with_ws(tokens[t])]
  /\ session' = Idle
  /\ UNCHANGED <<meta, heap, tokens, vectors, registry>>

\* token.vector
GetVector(t) ==
  /\ ~Busy
  /\ tokens[t].built
  /\ LET r == vector(tokens[t], vectors)
     IN  last' = [NoCall EXCEPT !.op = "vector", !.tok = t,
                                !.vec = r.vec, !.err = r.err]
  /\ session' = Idle
  /\ UNCHANGED <<meta, heap, tokens, vectors, registry>>

\* Token.create_pointer(token, location, id_at_location, register, owner,
\*                      ptr_id, garbage_collect_data)
CreatePointer(t, location, id_at_location, register, owner, ptr_id, gc) ==
  /\ ~Busy
  /\ tokens[t].built
  /\ LET ptr == TokenPointer(location,
                             DefaultIdAtLocation(id_at_location, tokens[t]),
                             DefaultOwner(owner, tokens[t]), ptr_id, gc)
     IN  /\ last' = [NoCall EXCEPT !.op = "create_pointer", !.tok = t,
                        !.ptr = ptr, !.register = register,
                        !.args = TokenPointer(location, id_at_location,
                                              owner, ptr_id, gc)]
         /\ registry' = RegistryAfterCreatePointer(registry, register, ptr)
  /\ session' = Idle
  /\ UNCHANGED <<meta, heap, tokens, vectors>>

\* token.get_encrypted_vector(*workers, crypto_provider, requires_grad):
\* the call is entered.  crypto_provider and requires_grad are handed to
\* share() as they are and decide nothing in this file.
StartEncrypt(t, workers) ==
  /\ ~Busy
  /\ tokens[t].built
  /\ session' = [Idle EXCEPT !.state = "COLLECTING_PARTICIPANTS", !.tok = t,
                             !.workers = workers]
  /\ last' = [NoCall EXCEPT !.op = "get_encrypted_vector", !.tok = t]
  /\ UNCHANGED <<meta, heap, tokens, vectors, registry>>

\* variant: the vector is shared without being encoded
AfterAssertNoEncoding(s) ==
  IF EnoughWorkers(s.workers)
    THEN [s EXCEPT !.state = "SHARING"]
    ELSE [s EXCEPT !.state = "FAILED", !.from = "COLLECTING_PARTICIPANTS",
                   !.err = [kind |-> AssertionError, at |-> ""]]

\* the call after its assertion: on to the vector, or AssertionError
AfterAssert(s) ==
  IF EnoughWorkers(s.workers)
    THEN [s EXCEPT !.state = "ENCODING"]
    ELSE [s EXCEPT !.state = "FAILED", !.from = "COLLECTING_PARTICIPANTS",
                   !.err = [kind |-> AssertionError, at |-> ""]]

\* assert len(workers) > 1
Validate ==
  /\ session.state = "COLLECTING_PARTICIPANTS"
  /\ session' = AfterAssert(session)
  /\ UNCHANGED <<meta, heap, tokens, vectors, registry, last>>

\* vector = self.doc.vocab.vectors[self.text]; torch.Tensor(vector);
\* vector.fix_precision()
Encode ==
  /\ session.state = "ENCODING"
  /\ LET r == Lookup(vectors, text(tokens[session.tok]))
     IN  session' =
           IF r.err = NoError
             THEN [session EXCEPT !.state = "SHARING", !.lookedUp = TRUE,
                                  !.encoded = TRUE]
             ELSE [session EXCEPT !.state = "FAILED", !.lookedUp = TRUE,
                                  !.from = "ENCODING", !.err = r.err]
  /\ UNCHANGED <<meta, heap, tokens, vectors, registry, last>>

\* .share(*workers, ...): the next worker of the sequence receives its share
SendShare ==
  /\ session.state = "SHARING"
  /\ session.sent < Len(session.workers)
  /\ LET w == session.workers[session.sent + 1]
         n == session.sent + 1
     IN  session' = [session EXCEPT
                       !.sent = n,
                       !.delivered = Append(@, w),
                       !.state = IF n = Len(session.workers)
                                   THEN "SHARED" ELSE "SHARING"]
  /\ UNCHANGED <<meta, heap, tokens, vectors, registry, last>>

\* .share(*workers, ...): the next worker cannot be reached; the exception
\* leaves get_encrypted_vector, which has no handler
SendShareFails ==
  /\ session.state = "SHARING"
  /\ session.sent < Len(session.workers)
  /\ LET w == session.workers[session.sent + 1]
     IN  session' = [session EXCEPT
                       !.sent = session.sent + 1,
                       !.state = "FAILED", !.from = "SHARING",
                       !.err = [kind |-> NetworkError, at |-> w]]
  /\ UNCHANGED <<meta, heap, tokens, vectors, registry, last>>

\* the embedding table gains or loses the entry of a text of the document
ChangeVectors(txt) ==
  /\ ~Busy
  /\ vectors' = IF txt \in vectors THEN vectors \ {txt} ELSE vectors \cup {txt}
  /\ last' = [NoCall EXCEPT !.op = "vectors_changed"]
  /\ session' = Idle
  /\ UNCHANGED <<meta, heap, tokens, registry>>

Next ==
  \/ \E t \in TokIds : Construct(t)
  \/ \E t \in TokIds, name \in Names, value \in Values :
       SetAttribute(t, name, value)
  \/ \E t \in TokIds : GetText(t)
  \/ \E t \in TokIds : GetLen(t)
  \/ \E t \in TokIds : GetTextWithWs(t)
  \/ \E t \in TokIds : GetVector(t)
  \/ \E t \in TokIds, p \in PointerArgs, i \in IdArgs :
       CreatePointer(t, p[1], i[1], i[2], p[2], p[3], p[4])
  \/ \E t \in TokIds, workers \in WorkerSeqs : StartEncrypt(t, workers)
  \/ Validate
  \/ Encode
  \/ SendShare
  \/ SendShareFails
  \/ \E txt \in {Store[meta.orth]} : ChangeVectors(txt)

Spec == Init /\ [][Next]_vars

\* ================================================================ claims
TokenOf(s) == tokens[s.tok]

\* C1: a get_encrypted_vector call with fewer than two workers fails with
\* the assertion's error (the spec's InsufficientPartiesError) straight
\* from COLLECTING_PARTICIPANTS: the vector is never looked up or encoded,
\* no share is sent or delivered, and tokens and attribute bags stay as
\* they were.
C1_FewWorkersFailFirst ==
  [][ (session'.state # "IDLE" /\ Len(session'.workers) < 2) =>
        /\ session'.state \in {"COLLECTING_PARTICIPANTS", "FAILED"}
        /\ (session.state = "COLLECTING_PARTICIPANTS" =>
              session'.state = "FAILED")
        /\ (session'.state = "FAILED" =>
              /\ session'.err.kind = AssertionError
              /\ session'.from = "COLLECTING_PARTICIPANTS")
        /\ ~session'.lookedUp
        /\ ~session'.encoded
        /\ session'.sent = 0
        /\ session'.delivered = << >>
        /\ tokens' = tokens
        /\ heap' = heap
        /\ registry' = registry ]_vars

C1_Witness ==
  /\ session.state = "FAILED"
  /\ Len(session.workers) = 1
  /\ session.err.kind = AssertionError
  /\ session.sent = 0

\* C2: the state of a call moves only COLLECTING_PARTICIPANTS -> ENCODING
\* -> SHARING -> SHARED, or to FAILED from one of the three non-terminal
\* states; SHARED and FAILED are never left by a step of the same call (the
\* only successors are a new call or another operation); the workers are
\* validated before the vector is looked up and encoded, and the vector is
\* encoded before a share goes out.
C2_StateOrder ==
  /\ [][ LET a == session.state
             b == session'.state
         IN  /\ b = "ENCODING" => a = "COLLECTING_PARTICIPANTS"
             /\ b = "SHARING" => a \in {"ENCODING", "SHARING"}
             /\ b = "SHARED" => a = "SHARING"
             /\ b = "FAILED" =>
                  /\ a \in {"COLLECTING_PARTICIPANTS", "ENCODING", "SHARING"}
                  /\ session'.from = a
             /\ b \in {"COLLECTING_PARTICIPANTS", "IDLE"} => a \in Terminal
             /\ a = "COLLECTING_PARTICIPANTS" => b \in {"ENCODING", "FAILED"}
             /\ a = "ENCODING" => b \in {"SHARING", "FAILED"} ]_vars
  /\ [] /\ session.lookedUp => Len(session.workers) >= 2
        /\ session.encoded => session.lookedUp
        /\ session.sent > 0 => session.encoded
        /\ session.state \in {"SHARING", "SHARED"} => session.encoded
        /\ session.state = "SHARED" =>
             Len(session.delivered) = Len(session.workers)

C2_Witness ==
  /\ session.state = "SHARED"
  /\ session.encoded
  /\ Len(session.delivered) = 2

\* C3: every call that reaches SHARED, and every call that has sent a
\* share, names at least two different workers.
C3_DistinctWorkers ==
  (session.state = "SHARED" \/ session.sent > 0) =>
    Cardinality(Range(session.workers)) >= 2

\* C4: a call to distinct workers that fails while its shares go out leaves
\* no delivered share behind.
C4_AllOrNothing ==
  (session.state = "FAILED" /\ session.from = "SHARING"
     /\ Cardinality(Range(session.workers)) = Len(session.workers)) =>
    session.delivered = << >>

C6_CreatePointer ==
  [][ last'.op = "create_pointer" =>
        LET tok == tokens[last'.tok]
            a == last'.args
            p == last'.ptr
        IN  /\ a.id_at_location # None => p.id_at_location = a.id_at_location
            /\ a.id_at_location = None => p.id_at_location = Some(tok.id)
            /\ a.owner # None => p.owner = a.owner
            /\ a.owner = None => p.owner = Some(tok.owner)
            /\ p.location = a.location
            /\ p.id = a.id
            /\ p.garbage_collect_data = a.garbage_collect_data
            /\ registry' = registry
            /\ tokens' = tokens
            /\ heap' = heap ]_vars

C6_Witness ==
  /\ last.op = "create_pointer"
  /\ last.register
  /\ last.args.id_at_location = Some(0)
  /\ last.ptr.id_at_location = Some(0)
  /\ last.args.owner = None
  /\ last.ptr.owner = Some("A")

\* C7: once a token is constructed, no step changes its orth, start_pos,
\* stop_pos, is_space, space_after or has_vector, and the first five are
\* the values of the token metadata (stop_pos one past end_pos, or None).
C7_FieldsFrozen ==
  /\ [][ \A t \in TokIds : tokens[t].built =>
           /\ tokens'[t].built
           /\ tokens'[t].orth = tokens[t].orth
           /\ tokens'[t].start_pos = tokens[t].start_pos
           /\ tokens'[t].stop_pos = tokens[t].stop_pos
           /\ tokens'[t].is_space = tokens[t].is_space
           /\ tokens'[t].space_after = tokens[t].space_after
           /\ tokens'[t].has_vector = tokens[t].has_vector ]_vars
  /\ [] \A t \in TokIds : tokens[t].built =>
           /\ tokens[t].orth = meta.orth
           /\ tokens[t].start_pos = meta.start_pos
           /\ tokens[t].is_space = meta.is_space
           /\ tokens[t].space_after = meta.space_after
           /\ (meta.end_pos = None => tokens[t].stop_pos = None)
           /\ (meta.end_pos # None =>
                 tokens[t].stop_pos = <<meta.end_pos[1] + 1>>)

C7_Witness ==
  \E t \in TokIds :
    /\ tokens[t].built
    /\ last.op = "set_attribute"
    /\ last.tok = t
    /\ last.name = "start_pos"
    /\ last.value # tokens[t].start_pos
    /\ tokens[t].has_vector # (Store[tokens[t].orth] \in vectors)

\* C8: after set_attribute(name, value) the bag holds value under name,
\* whatever it held before, and holds every other name it held before with
\* the value it had; nothing else is in the bag.
C8_LastWriteWins ==
  [][ last'.op = "set_attribute" =>
        LET u == tokens[last'.tok].us
        IN  /\ last'.name \in DOMAIN heap'[u]
            /\ heap'[u][last'.name] = last'.value
            /\ DOMAIN heap'[u] = (DOMAIN heap[u]) \cup {last'.name}
            /\ \A n \in (DOMAIN heap[u]) \ {last'.name} :
                 heap'[u][n] = heap[u][n] ]_vars

C8_Witness ==
  /\ last.op = "set_attribute"
  /\ last.name = "tag"
  /\ last.value = 2
  /\ DOMAIN heap[tokens[last.tok].us] = {"tag", "start_pos"}
  /\ heap[tokens[last.tok].us]["tag"] = 2
  /\ heap[tokens[last.tok].us]["start_pos"] = 1

\* C9: text_with_ws is the text followed by exactly one space when
\* space_after is true and the text itself when it is false, whatever
\* is_space is.
C9_TrailingSpace ==
  last.op = "text_with_ws" =>
    LET tok == tokens[last.tok]
        txt == Store[tok.orth]
        s == last.str
    IN  IF tok.space_after
          THEN /\ Len(s) = Len(txt) + 1
               /\ SubSeq(s, 1, Len(txt)) = txt
               /\ s[Len(s)] = " "
          ELSE s = txt

C9_Witness ==
  /\ last.op = "text_with_ws"
  /\ tokens[last.tok].is_space
  /\ ~tokens[last.tok].space_after
  /\ last.str = <<" ">>

\* C10: the attribute bag of every token is the bag of the token metadata:
\* they hold the same entries in every state, and a value written by
\* set_attribute on one token is read through the metadata and through
\* every other token built from it.
C10_SharedUnderscore ==
  /\ \A t \in TokIds : tokens[t].built =>
       heap[tokens[t].us] = heap[TokenMeta.us]
  /\ last.op = "set_attribute" =>
       /\ last.name \in DOMAIN heap[TokenMeta.us]
       /\ heap[TokenMeta.us][last.name] = last.value
       /\ \A t \in TokIds : tokens[t].built =>
            /\ last.name \in DOMAIN heap[tokens[t].us]
            /\ heap[tokens[t].us][last.name] = last.value

C10_Witness ==
  /\ \A t \in TokIds : tokens[t].built
  /\ last.op = "set_attribute"
  /\ last.tok = 1
  /\ last.name \in DOMAIN heap[tokens[2].us]
  /\ heap[tokens[2].us][last.name] = last.value

====
